---------------------------- MODULE Spec2Model ----------------------------
(***************************************************************************)
(* A model of the tuition calculator's two request handlers, `lookup` and  *)
(* `calculate` (src/src/main.rs), and of the three MySQL tables they use.  *)
(*                                                                         *)
(* Every `.await` on the connection pool is a suspension point, so each    *)
(* handler is cut into one action per database round trip.  The code that  *)
(* runs between two round trips (form validation, the arithmetic, building *)
(* the page) is part of the action that follows the earlier round trip.    *)
(*                                                                         *)
(* Option<String> is modelled as a sequence: <<>> is None, <<v>> is        *)
(* Some(v).  Names and the select fields are TLA+ strings; num_credits,    *)
(* which the code parses, is a sequence of one-character strings.          *)
(* rust_decimal values are exact fixed-point numbers; they are modelled as *)
(* integers (an amount in cents), far below the 96-bit mantissa.           *)
(* SQL `=` on strings is modelled as equality (the model's strings never   *)
(* differ only in case or trailing blanks).                                *)
(***************************************************************************)
EXTENDS Integers, Sequences, FiniteSets, TLC

VARIABLES
    UserTuition,      \* the UserTuition table: a multiset of rows
    db_up,            \* whether a round trip to the database succeeds now
    pc,               \* per request slot: where its handler is suspended
    route,            \* per slot: "calculate", "lookup" or "none"
    params,           \* per slot: the submitted form
    tuition_cost,     \* per slot: calculate's local `tuition_cost`
    orientation_fee,  \* per slot: calculate's local `orientation_fee.Fee`
    total,            \* per slot: calculate's local `total`
    user_exists,      \* per slot: calculate's local `user_exists`
    resp              \* per slot: what the handler returned

vars == <<UserTuition, db_up, pc, route, params, tuition_cost,
          orientation_fee, total, user_exists, resp>>

locals == <<tuition_cost, orientation_fee, total, user_exists>>

(***************************************************************************)
(* Bounds of the model.                                                    *)
(***************************************************************************)
\* The most rows (counted with multiplicity) the model lets UserTuition hold.
MaxRows == 3
\* The most fields in which a submitted form differs from BaseForm.
MaxDeviations == 2

Procs == {"p1", "p2"}

None == <<>>
Some(v) == <<v>>
IsSome(o) == Len(o) = 1
Unwrap(o) == o[1]

(***************************************************************************)
(* The reference data: CreditCosts keyed by (Studies, Residency), and the  *)
(* single row of orientation_fee.  No handler writes either table.         *)
(***************************************************************************)
CreditCosts ==
    { [Studies |-> "undergraduate", Residency |-> "resident",
       CreditsCost |-> 3, NonresidencyFee |-> 0],
      [Studies |-> "undergraduate", Residency |-> "nonresident",
       CreditsCost |-> 3, NonresidencyFee |-> 5],
      [Studies |-> "graduate", Residency |-> "resident",
       CreditsCost |-> 4, NonresidencyFee |-> 0],
      [Studies |-> "graduate", Residency |-> "nonresident",
       CreditsCost |-> 4, NonresidencyFee |-> 5] }

OrientationFeeTable == { [Fee |-> 1] }

NoCost == [CreditsCost |-> 0, NonresidencyFee |-> 0]

(***************************************************************************)
(* Forms.                                                                  *)
(***************************************************************************)
CalculateTuitionFormParams ==
    [first_name      : {None, Some(""), Some("Ann")},
     last_name       : {None, Some("Lee")},
     num_credits     : {None, Some(<<"2">>), Some(<<"1", "0">>),
                        Some(<<"2", "5", "6">>), Some(<<"a", "b", "c">>)},
     new_student     : {None, Some("on")},
     orientation     : {None, Some("on"), Some("off")},
     student_type    : {None, Some("resident"), Some("nonresident"),
                        Some("unrecognized")},
     student_studies : {None, Some("undergraduate"), Some("graduate")}]

NoForm ==
    [first_name |-> None, last_name |-> None, num_credits |-> None,
     new_student |-> None, orientation |-> None, student_type |-> None,
     student_studies |-> None]

\* A /lookup form carries only the two names.
LookupFormParams ==
    { [NoForm EXCEPT !.first_name = f, !.last_name = l] :
        f \in {None, Some(""), Some("Ann")}, l \in {None, Some("Lee")} }

BaseForm ==
    [first_name |-> Some("Ann"), last_name |-> Some("Lee"),
     num_credits |-> Some(<<"2">>), new_student |-> None,
     orientation |-> None, student_type |-> Some("nonresident"),
     student_studies |-> Some("undergraduate")]

Deviations(form) == Cardinality({k \in DOMAIN BaseForm : form[k] # BaseForm[k]})

\* The forms submitted one request after the other.
FormsSeq == {form \in CalculateTuitionFormParams : Deviations(form) <= MaxDeviations}

\* The forms submitted by concurrent requests.
FormsConc ==
    { [BaseForm EXCEPT !.first_name = f, !.orientation = o] :
        f \in {Some(""), Some("Ann")}, o \in {None, Some("on")} }

LookupsConc == {form \in LookupFormParams : IsSome(form.first_name) /\ IsSome(form.last_name)}

(***************************************************************************)
(* str::parse::<u8>: an optional leading "+", then decimal digits,         *)
(* accumulated with an overflow check.  -1 stands for Err.                 *)
(***************************************************************************)
DigitOf(c) ==
    CASE c = "0" -> 0 [] c = "1" -> 1 [] c = "2" -> 2 [] c = "3" -> 3
      [] c = "4" -> 4 [] c = "5" -> 5 [] c = "6" -> 6 [] c = "7" -> 7
      [] c = "8" -> 8 [] c = "9" -> 9 [] OTHER -> -1

U8Max == 255

RECURSIVE ParseDigits(_, _)
ParseDigits(s, acc) ==
    IF s = <<>> THEN acc
    ELSE LET d == DigitOf(Head(s)) IN
         IF d < 0 THEN -1
         ELSE IF acc * 10 + d > U8Max THEN -1
         ELSE ParseDigits(Tail(s), acc * 10 + d)

ParseU8(s) ==
    IF s = <<>> THEN -1
    ELSE IF Head(s) = "+"
         THEN (IF Tail(s) = <<>> THEN -1 ELSE ParseDigits(Tail(s), 0))
         ELSE ParseDigits(s, 0)

(***************************************************************************)
(* The validation at the head of `calculate`: the fields of                *)
(* TypeSafeParameters are built in declaration order, and the first one    *)
(* that cannot be built ends the handler.                                  *)
(***************************************************************************)
Checkbox(o) == IF IsSome(o) THEN (IF Unwrap(o) = "on" THEN TRUE ELSE FALSE) ELSE FALSE

Residency(val) ==
    IF val = "resident" THEN "In"
    ELSE IF val = "nonresident" THEN "Out"
    ELSE "Out"

Studies(val) ==
    IF val = "undergraduate" THEN "Undergraduate"
    ELSE IF val = "nonresident" THEN "Graduate"
    ELSE "Undergraduate"

\* "ok", "error" (an early `return error(..)`) or "panic" (the unwrap).
CalculateValidation(form) ==
    IF ~IsSome(form.first_name) THEN "error"
    ELSE IF ~IsSome(form.last_name) THEN "error"
    ELSE IF ~IsSome(form.num_credits) THEN "error"
    ELSE IF ParseU8(Unwrap(form.num_credits)) < 0 THEN "panic"
    ELSE IF ~IsSome(form.student_type) THEN "error"
    ELSE IF ~IsSome(form.student_studies) THEN "error"
    ELSE "ok"

TypeSafeParameters(form) ==
    [first_name      |-> Unwrap(form.first_name),
     last_name       |-> Unwrap(form.last_name),
     num_credits     |-> ParseU8(Unwrap(form.num_credits)),
     new_student     |-> Checkbox(form.new_student),
     orientation     |-> Checkbox(form.orientation),
     student_type    |-> Residency(Unwrap(form.student_type)),
     student_studies |-> Studies(Unwrap(form.student_studies))]

LookupValidation(form) ==
    IF ~IsSome(form.first_name) THEN "error"
    ELSE IF ~IsSome(form.last_name) THEN "error"
    ELSE "ok"

(***************************************************************************)
(* The UserTuition table has no key: it is a multiset of rows, held as a   *)
(* set of entries [FirstName, LastName, TuitionCost, n], n >= 1 the number *)
(* of copies of the row.                                                   *)
(***************************************************************************)
RECURSIVE Copies(_)
Copies(S) ==
    IF S = {} THEN 0
    ELSE LET e == CHOOSE x \in S : TRUE IN e.n + Copies(S \ {e})

Matching(T, f, l) == {e \in T : e.FirstName = f /\ e.LastName = l}

RowCount(T, f, l) == Copies(Matching(T, f, l))

\* insert into UserTuition (FirstName, LastName, TuitionCost) VALUES (?, ?, ?)
InsertRow(T, f, l, c) ==
    LET same == {e \in T : e.FirstName = f /\ e.LastName = l /\ e.TuitionCost = c}
    IN (T \ same) \cup
       {[FirstName |-> f, LastName |-> l, TuitionCost |-> c, n |-> Copies(same) + 1]}

\* Mutant of UpdateRows: the statement without `FirstName = ?` in its WHERE.
UpdateRowsByLastName(T, f, l, c) ==
    LET hit == {e \in T : e.LastName = l}
    IN (T \ hit) \cup
       { [FirstName |-> g, LastName |-> l, TuitionCost |-> c,
          n |-> Copies({e \in hit : e.FirstName = g})] :
            g \in {e.FirstName : e \in hit} }

\* update UserTuition set TuitionCost = ? where FirstName = ? and LastName = ?
UpdateRows(T, f, l, c) ==
    LET hit == Matching(T, f, l)
    IN IF hit = {} THEN T
       ELSE (T \ hit) \cup
            {[FirstName |-> f, LastName |-> l, TuitionCost |-> c, n |-> Copies(hit)]}

\* Mutant of FetchOne: Err as well when the query selects more than one row.
FetchOneStrict(up, rows) ==
    IF up /\ Cardinality(rows) = 1
          /\ (\A e \in rows : "n" \in DOMAIN e => e.n = 1)
    THEN rows ELSE {}

\* `fetch_one` on a query that selects `rows`: the rows it may answer Ok with.
\* It answers with the first row the server sends, whichever that is, and
\* with Err when the round trip fails or no row is selected ({} here).
FetchOne(up, rows) == IF up THEN rows ELSE {}

\* The rows the CreditCosts query selects.
RateRows(studies, residency) ==
    {r \in CreditCosts : Some(r.Studies) = studies /\ Some(r.Residency) = residency}

\* Mutant of ComputeTotal: the orientation fee is left out of the sum.
ComputeTotalNoFee(tc, n, fee) == tc.CreditsCost * n + tc.NonresidencyFee

\* creditsCost * numCredits + nonresidencyFee + orientationFee
ComputeTotal(tc, n, fee) == tc.CreditsCost * n + tc.NonresidencyFee + fee

(***************************************************************************)
(* Responses.                                                              *)
(***************************************************************************)
NoResp == [page |-> "none", amount |-> 0]
ErrorPage == [page |-> "error", amount |-> 0]
Panic == [page |-> "panic", amount |-> 0]
TablePage(t) == [page |-> "table", amount |-> t]
LookupPage(row) == [page |-> "lookup", amount |-> row.TuitionCost]

Init ==
    /\ UserTuition = {}
    /\ db_up = TRUE
    /\ pc = [p \in Procs |-> "idle"]
    /\ route = [p \in Procs |-> "none"]
    /\ params = [p \in Procs |-> NoForm]
    /\ tuition_cost = [p \in Procs |-> NoCost]
    /\ orientation_fee = [p \in Procs |-> 0]
    /\ total = [p \in Procs |-> 0]
    /\ user_exists = [p \in Procs |-> FALSE]
    /\ resp = [p \in Procs |-> NoResp]

\* A slot takes a new request: the locals of the handler start afresh.
Begin(p, r, form) ==
    /\ route' = [route EXCEPT ![p] = r]
    /\ params' = [params EXCEPT ![p] = form]
    /\ tuition_cost' = [tuition_cost EXCEPT ![p] = NoCost]
    /\ orientation_fee' = [orientation_fee EXCEPT ![p] = 0]
    /\ total' = [total EXCEPT ![p] = 0]
    /\ user_exists' = [user_exists EXCEPT ![p] = FALSE]

Finish(p, r) ==
    /\ pc' = [pc EXCEPT ![p] = "done"]
    /\ resp' = [resp EXCEPT ![p] = r]

(***************************************************************************)
(* POST /lookup                                                            *)
(***************************************************************************)
Lookup(p, form) ==
    /\ Begin(p, "lookup", form)
    /\ IF LookupValidation(form) = "ok"
       THEN /\ pc' = [pc EXCEPT ![p] = "query"]
            /\ resp' = [resp EXCEPT ![p] = NoResp]
       ELSE Finish(p, ErrorPage)
    /\ UNCHANGED <<UserTuition, db_up>>

LookupQuery(p) ==
    /\ pc[p] = "query"
    /\ LET rows == FetchOne(db_up, Matching(UserTuition,
                              Unwrap(params[p].first_name),
                              Unwrap(params[p].last_name)))
       IN IF rows # {}
          THEN \E row \in rows : Finish(p, LookupPage(row))
          ELSE Finish(p, ErrorPage)
    /\ UNCHANGED <<UserTuition, db_up, route, params, locals>>

(***************************************************************************)
(* POST /calculate                                                         *)
(***************************************************************************)
Calculate(p, form) ==
    /\ Begin(p, "calculate", form)
    /\ LET v == CalculateValidation(form)
       IN IF v = "ok"
          THEN /\ pc' = [pc EXCEPT ![p] = "rates"]
               /\ resp' = [resp EXCEPT ![p] = NoResp]
          ELSE IF v = "panic" THEN Finish(p, Panic)
          ELSE Finish(p, ErrorPage)
    /\ UNCHANGED <<UserTuition, db_up>>

CalcRates(p) ==
    /\ pc[p] = "rates"
    /\ LET rows == FetchOne(db_up, RateRows(params[p].student_studies,
                                            params[p].student_type))
           tsp == TypeSafeParameters(params[p])
       IN IF rows # {}
          THEN \E row \in rows :
                 LET tc == [CreditsCost |-> row.CreditsCost,
                            NonresidencyFee |-> row.NonresidencyFee]
                 IN /\ tuition_cost' = [tuition_cost EXCEPT ![p] = tc]
                    /\ orientation_fee' = [orientation_fee EXCEPT ![p] = 0]
                    /\ IF tsp.orientation
                       THEN /\ pc' = [pc EXCEPT ![p] = "orient"]
                            /\ UNCHANGED total
                       ELSE /\ pc' = [pc EXCEPT ![p] = "exists"]
                            /\ total' = [total EXCEPT ![p] =
                                 ComputeTotal(tc, tsp.num_credits, 0)]
                    /\ UNCHANGED resp
          ELSE /\ Finish(p, ErrorPage)
               /\ UNCHANGED <<tuition_cost, orientation_fee, total>>
    /\ UNCHANGED <<UserTuition, db_up, route, params, user_exists>>

CalcOrientation(p) ==
    /\ pc[p] = "orient"
    /\ LET tsp == TypeSafeParameters(params[p])
           rows == FetchOne(db_up, OrientationFeeTable)
       IN IF rows # {}
          THEN \E row \in rows :
                 /\ orientation_fee' = [orientation_fee EXCEPT ![p] = row.Fee]
                 /\ total' = [total EXCEPT ![p] =
                      ComputeTotal(tuition_cost[p], tsp.num_credits, row.Fee)]
                 /\ pc' = [pc EXCEPT ![p] = "exists"]
                 /\ UNCHANGED resp
          ELSE /\ Finish(p, ErrorPage)
               /\ UNCHANGED <<orientation_fee, total>>
    /\ UNCHANGED <<UserTuition, db_up, route, params, tuition_cost, user_exists>>

\* `Ok(_) => true, Err(_) => false`: any error counts as "no such user".
ExistsResult(up, T, f, l) == FetchOne(up, Matching(T, f, l)) # {}

CalcExists(p) ==
    /\ pc[p] = "exists"
    /\ LET tsp == TypeSafeParameters(params[p])
       IN user_exists' = [user_exists EXCEPT ![p] =
            ExistsResult(db_up, UserTuition, tsp.first_name, tsp.last_name)]
    /\ pc' = [pc EXCEPT ![p] = "write"]
    /\ UNCHANGED <<UserTuition, db_up, route, params, tuition_cost,
                   orientation_fee, total, resp>>

\* Mutant of Written: an atomic upsert, deciding on the table as it is now.
WrittenUpsert(T, exists, f, l, c) ==
    IF Matching(T, f, l) = {} THEN InsertRow(T, f, l, c) ELSE UpdateRows(T, f, l, c)

\* The table after the handler's write statement has succeeded.
Written(T, exists, f, l, c) ==
    IF ~exists THEN InsertRow(T, f, l, c) ELSE UpdateRows(T, f, l, c)

CalcWrite(p) ==
    /\ pc[p] = "write"
    /\ LET tsp == TypeSafeParameters(params[p])
       IN IF db_up
          THEN /\ UserTuition' = Written(UserTuition, user_exists[p],
                                         tsp.first_name, tsp.last_name, total[p])
               /\ Copies(UserTuition') <= MaxRows
               /\ Finish(p, TablePage(total[p]))
          ELSE /\ Finish(p, ErrorPage)
               /\ UNCHANGED UserTuition
    /\ UNCHANGED <<db_up, route, params, locals>>

(***************************************************************************)
(* The database becoming unreachable, and reachable again.                 *)
(***************************************************************************)
DbDown ==
    /\ db_up
    /\ db_up' = FALSE
    /\ UNCHANGED <<UserTuition, pc, route, params, locals, resp>>

DbUp ==
    /\ ~db_up
    /\ db_up' = TRUE
    /\ UNCHANGED <<UserTuition, pc, route, params, locals, resp>>

Free(p) == pc[p] \in {"idle", "done"}

Step(p) ==
    \/ LookupQuery(p)
    \/ CalcRates(p)
    \/ CalcOrientation(p)
    \/ CalcExists(p)
    \/ CalcWrite(p)

\* Requests arrive at any time and are handled concurrently.
Next ==
    \/ \E p \in Procs : Free(p) /\ \E form \in FormsConc : Calculate(p, form)
    \/ \E p \in Procs : Free(p) /\ \E form \in LookupsConc : Lookup(p, form)
    \/ \E p \in Procs : Step(p)
    \/ DbDown
    \/ DbUp

Spec == Init /\ [][Next]_vars

\* The same, with a database that never fails.
NextNoFault ==
    \/ \E p \in Procs : Free(p) /\ \E form \in FormsConc : Calculate(p, form)
    \/ \E p \in Procs : Free(p) /\ \E form \in LookupsConc : Lookup(p, form)
    \/ \E p \in Procs : Step(p)

SpecNoFault == Init /\ [][NextNoFault]_vars

\* Two requests, the second submitted after the first has been answered.
Turn(p) == pc[p] = "idle" /\ (p = "p1" \/ pc["p1"] = "done")

NextSeq ==
    \/ \E p \in Procs : Turn(p) /\ \E form \in FormsSeq : Calculate(p, form)
    \/ \E p \in Procs : Turn(p) /\ \E form \in LookupFormParams : Lookup(p, form)
    \/ \E p \in Procs : Step(p)
    \/ DbDown
    \/ DbUp

SpecSeq == Init /\ [][NextSeq]_vars

TypeOK ==
    /\ db_up \in BOOLEAN
    /\ \A p \in Procs :
         /\ pc[p] \in {"idle", "query", "rates", "orient", "exists", "write", "done"}
         /\ resp[p].page \in {"none", "error", "panic", "table", "lookup"}

(***************************************************************************)
(* Vocabulary of the properties.                                           *)
(***************************************************************************)
FirstOf(p) == Unwrap(params[p].first_name)
LastOf(p) == Unwrap(params[p].last_name)

\* Slot p's /calculate request has returned its success page.
Succeeded(p) ==
    pc[p] = "done" /\ route[p] = "calculate" /\ resp[p].page = "table"

\* Slot p takes its first step on a /calculate request in this step.
Submits(p) == pc[p] = "idle" /\ pc'[p] # "idle" /\ route'[p] = "calculate"

\* Slot p's /calculate handler completes its write statement in this step.
Writes(p) == pc[p] = "write" /\ pc'[p] = "done" /\ resp'[p].page = "table"

SamePair(p, q) == FirstOf(p) = FirstOf(q) /\ LastOf(p) = LastOf(q)

\* The forms f and g agree on every field but k.
DifferOnlyIn(f, g, k) == \A j \in DOMAIN NoForm : (j # k) => f[j] = g[j]

(***************************************************************************)
(* C1.  Two /calculate requests for the same name pair, handled one after  *)
(* the other on a table that held no row for the pair, leave exactly one   *)
(* row for the pair, and its tuitionCost is the second request's total.    *)
(* (SpecSeq: p1 is answered before p2 is submitted; the table starts       *)
(* empty.)                                                                 *)
(***************************************************************************)
C1_TwoSubmissionsOneRecord ==
    (Succeeded("p1") /\ Succeeded("p2") /\ SamePair("p1", "p2"))
        => /\ RowCount(UserTuition, FirstOf("p2"), LastOf("p2")) = 1
           /\ \A e \in Matching(UserTuition, FirstOf("p2"), LastOf("p2")) :
                  e.TuitionCost = resp["p2"].amount

(***************************************************************************)
(* C2.  When /calculate returns the success page, the total it displays    *)
(* and writes to UserTuition is creditsCost * numCredits + nonresidencyFee *)
(* + orientationFee: the first two from the fetched rate row, numCredits   *)
(* the parsed value in 0..255, orientationFee the single orientation_fee   *)
(* row if the orientation field is "on" and zero otherwise.  Two requests  *)
(* that differ only in asking for orientation have totals that differ by   *)
(* exactly that fee.                                                       *)
(***************************************************************************)
TheOrientationFee == (CHOOSE r \in OrientationFeeTable : TRUE).Fee

ExpectedTotal(p) ==
    tuition_cost[p].CreditsCost * ParseU8(Unwrap(params[p].num_credits))
      + tuition_cost[p].NonresidencyFee
      + (IF params[p].orientation = Some("on") THEN TheOrientationFee ELSE 0)

\* p asked for orientation, q did not, and nothing else differs.
OrientationOnly(p, q) ==
    /\ DifferOnlyIn(params[p], params[q], "orientation")
    /\ params[p].orientation = Some("on")
    /\ params[q].orientation # Some("on")

C2_TotalFormula ==
    [][\A p \in Procs : Writes(p) =>
         /\ ParseU8(Unwrap(params[p].num_credits)) \in 0..255
         /\ \E r \in RateRows(params[p].student_studies, params[p].student_type) :
               /\ tuition_cost[p].CreditsCost = r.CreditsCost
               /\ tuition_cost[p].NonresidencyFee = r.NonresidencyFee
         /\ resp'[p].amount = ExpectedTotal(p)
         /\ \E e \in Matching(UserTuition', FirstOf(p), LastOf(p)) :
               e.TuitionCost = ExpectedTotal(p)
         /\ \A q \in Procs \ {p} : Succeeded(q) =>
               /\ OrientationOnly(p, q) =>
                    resp'[p].amount = resp[q].amount + TheOrientationFee
               /\ OrientationOnly(q, p) =>
                    resp[q].amount = resp'[p].amount + TheOrientationFee]_vars

C2_Witness ==
    /\ Succeeded("p1") /\ Succeeded("p2")
    /\ OrientationOnly("p2", "p1")
    /\ ParseU8(Unwrap(params["p2"].num_credits)) = 10
    /\ resp["p2"].amount = resp["p1"].amount + TheOrientationFee

(***************************************************************************)
(* C3.  A /calculate request with a required field (first_name, last_name, *)
(* num_credits, student_type, student_studies) missing returns the generic *)
(* error page and leaves UserTuition as it was.                            *)
(***************************************************************************)
RequiredFields ==
    {"first_name", "last_name", "num_credits", "student_type", "student_studies"}

MissingRequired(form) == \E k \in RequiredFields : form[k] = None

C3_MissingFieldIsErrorPage ==
    [][\A p \in Procs : (Submits(p) /\ MissingRequired(params'[p])) =>
         /\ pc'[p] = "done"
         /\ resp'[p].page = "error"
         /\ UserTuition' = UserTuition]_vars

(***************************************************************************)
(* C4.  A /calculate request whose num_credits is present but is not an    *)
(* unsigned integer in 0..255 ends with the generic error page, not with a *)
(* panic, and writes nothing.                                              *)
(***************************************************************************)
BadCredits(form) ==
    IsSome(form.num_credits) /\ ParseU8(Unwrap(form.num_credits)) \notin 0..255

C4_BadCreditsIsErrorPage ==
    [][\A p \in Procs : (Submits(p) /\ BadCredits(params'[p])) =>
         /\ pc'[p] = "done"
         /\ resp'[p].page = "error"
         /\ UserTuition' = UserTuition]_vars

(***************************************************************************)
(* C5.  Two /calculate requests equal in every field except that one has   *)
(* student_type "nonresident" and the other an unrecognized student_type   *)
(* have the same outcome: the same kind of response, the same rate row     *)
(* and the same total.                                                     *)
(***************************************************************************)
C5_UnrecognizedLikeNonresident ==
    \A p, q \in Procs :
        ( /\ pc[p] = "done" /\ route[p] = "calculate"
          /\ pc[q] = "done" /\ route[q] = "calculate"
          /\ DifferOnlyIn(params[p], params[q], "student_type")
          /\ params[p].student_type = Some("nonresident")
          /\ params[q].student_type = Some("unrecognized") )
        => /\ resp[p].page = resp[q].page
           /\ tuition_cost[p] = tuition_cost[q]
           /\ total[p] = total[q]

(***************************************************************************)
(* C7.  A name field that is present but empty is rejected like a missing  *)
(* one by both handlers (generic error page, handler ended), and no        *)
(* UserTuition row ever has an empty firstName or lastName.                *)
(***************************************************************************)
EmptyName(form) == form.first_name = Some("") \/ form.last_name = Some("")

C7_EmptyNameRejected ==
    /\ \A e \in UserTuition : e.FirstName # "" /\ e.LastName # ""
    /\ \A p \in Procs : (pc[p] # "idle" /\ EmptyName(params[p])) =>
          (pc[p] = "done" /\ resp[p].page = "error")

(***************************************************************************)
(* C9.  Every database failure met by /calculate short-circuits to the     *)
(* generic error page: a failed rate read, orientation-fee read, existence *)
(* read or write ends the request with the error page, and no later        *)
(* database operation of the request follows.                              *)
(***************************************************************************)
C9_DbFailureShortCircuits ==
    [][\A p \in Procs :
         ( /\ pc[p] \in {"rates", "orient", "exists", "write"}
           /\ pc'[p] # pc[p]
           /\ ~db_up )
         => (pc'[p] = "done" /\ resp'[p].page = "error")]_vars

(***************************************************************************)
(* C6.  As claimed: a /lookup with both names present returns the success  *)
(* view if and only if exactly one UserTuition row matches the name pair,  *)
(* and the generic error page when zero rows or more than one row match.   *)
(* (Stated for a query whose round trip does not fail.)                    *)
(***************************************************************************)
Answers(p) == pc[p] = "query" /\ pc'[p] = "done"

BothInserted(p, q) ==
    /\ p # q
    /\ Succeeded(p) /\ Succeeded(q)
    /\ SamePair(p, q)
    /\ ~user_exists[p] /\ ~user_exists[q]

C8_RaceLeavesTwoRows ==
    \A p, q \in Procs :
        BothInserted(p, q) =>
            RowCount(UserTuition, FirstOf(p), LastOf(p)) >= 2

C8_Witness ==
    /\ BothInserted("p1", "p2")
    /\ RowCount(UserTuition, FirstOf("p1"), LastOf("p1")) = 2

(***************************************************************************)
(* C10.  A /calculate request that reaches its write performs one write:   *)
(* an insert of (f, l, total) if its existence read returned no row,       *)
(* otherwise an update setting tuitionCost = total on the rows matching    *)
(* (f, l); rows of every other name pair are left as they were; nothing    *)
(* else writes, and no step of any handler deletes a row.                  *)
(***************************************************************************)
OtherPairs(T, f, l) == T \ Matching(T, f, l)

=============================================================================
